---- MODULE Spec2Model ----
(***************************************************************************)
(* Model of back-rust/src/ssh_service.rs: the SshService session registry, *)
(* the connect task, the per-session worker loop and the public API calls. *)
(* Threads are the API callers, one connect task per connect() call and    *)
(* one worker per registered session.  A step is one atomic piece of the   *)
(* code between two points where another thread can interleave (a lock     *)
(* acquisition, a channel operation, a transport call).                    *)
(***************************************************************************)
EXTENDS Naturals, Integers, Sequences, FiniteSets, TLC

\* ---------------------------------------------------------------- bounds
\* Spec: two sessions, so that reconnects and unrelated sessions happen
MaxConnects == 2        \* connect() calls issued in one behaviour
MaxCmds     == 1        \* Write, Resize and Exec commands enqueued in one behaviour
\* SessionSpec: the life of one session, with more commands
SessionCmds == 2        \* Write, Resize and Exec commands enqueued in one behaviour

\* ------------------------------------------------------- program constants
HandshakeTimeout == 15000
PollTimeout      == 100
ExecTimeout      == 60000

\* ------------------------------------------------------------ input sets
\* Identifiers are strings, modelled as sequences of characters.
\* socket.id is a socketioxide Sid (base64url characters only).
SocketIds == { <<"a">>, <<"b">> }
\* config.server_id is free text supplied by the front end.
ServerIds == { <<"s">>, <<"s", ":", "t">> }
\* the (socket id, server id) pairs the API is called with
Targets   == { <<c, s>> \in SocketIds \X ServerIds :
                 c = <<"a">> \/ s = <<"s">> }
\* disconnect_all takes socket_id: &str, any string.
ForeignIds == { <<"a", ":", "s">> }
\* API calls in flight at once: one of the synchronous methods (connect,
\* write, resize, disconnect, disconnect_all) and one exec()
Callers     == { "u1" }
ExecCallers == { "e1" }
Threads     == Callers \cup ExecCallers
Creds     == { "password", "private_key", "none" }
ExecResults == { "Ok(output)", "Err(e)" }
Data      == { "x" }
Sizes     == { <<120, 40>> }
Commands  == { "echo hi" }
Sids      == 1 .. MaxConnects
None      == 0
NoThread  == "none"

\* ------------------------------------------------------------- variables
VARIABLES
  sessions,   \* SshService.sessions: HashMap<String, SshSession> (key -> session id)
  regLock,    \* holder of the Mutex around the map
  caller,     \* per API caller: the call in progress and its locals
  task,       \* per connect(): the spawn_blocking connect task
  worker,     \* per session: the spawn_blocking worker loop (cause: why it left the loop)
  queue,      \* per session: contents of the mpsc channel (tx -> rx)
  handle,     \* per session: the SshSession value (owner of tx)
  sessLock,   \* per session: holder of the Mutex around the ssh2 Session
  transport,  \* per session: the ssh2 Session (timeout, disconnect calls)
  cmds,       \* history: number of Write, Resize and Exec commands enqueued
  sent,       \* history: number of commands enqueued on the session
  applied,    \* history: the commands the worker received, each with its
              \*          enqueue position, in receive order
  events,     \* history: notifications emitted for the attempt, in order
  removedBy,  \* history: who took the session's entry out of the map
  tornDown    \* history: the attempt is in flight and a disconnect() of its
              \*          key, or a disconnect_all() of its client, has returned

vars == << sessions, regLock, caller, task, worker, queue, handle, sessLock,
           transport, cmds, sent, applied, events, removedBy, tornDown >>

\* ----------------------------------------------------------- pure helpers
\* format!("{}:{}", socket_id, server_id)
Key(socket_id, server_id) == socket_id \o <<":">> \o server_id

\* str::strip_prefix: Some(rest) when k starts with p, else None
HasPrefix(k, p) == Len(k) >= Len(p) /\ SubSeq(k, 1, Len(p)) = p
StripPrefix(k, p) == SubSeq(k, Len(p) + 1, Len(k))

\* the keys connect() can insert
KeySpace == { Key(x[1], x[2]) : x \in Targets }

\* a lookup that falls back on any key of the same socket id
GetBySocket(m, k) ==
  LET same == { x \in DOMAIN m : m[x] # None /\ x[1] = k[1] }
  IN  IF k \in DOMAIN m /\ m[k] # None THEN m[k]
      ELSE IF same # {} THEN m[CHOOSE x \in same : TRUE]
      ELSE None
\* HashMap::get / insert / remove / keys on the registry
Get(m, k)       == IF k \in DOMAIN m THEN m[k] ELSE None
Insert(m, k, v) == [x \in DOMAIN m \cup {k} |-> IF x = k THEN v ELSE m[x]]
Remove(m, k)    == [x \in DOMAIN m |-> IF x = k THEN None ELSE m[x]]
KeysOf(m)       == { k \in DOMAIN m : m[k] # None }

\* SshChannelCmd
WriteCmd(d)      == [type |-> "Write", data |-> d]
ResizeCmd(c, r)  == [type |-> "Resize", cols |-> c, rows |-> r]
DisconnectCmd    == [type |-> "Disconnect"]
ExecCmd(c, u)    == [type |-> "Exec", command |-> c, reply_tx |-> u]

Idle == [op |-> "idle", pc |-> "idle"]

NoTask   == [pc |-> "unused"]
NoWorker == [pc |-> "none"]

\* rx lives from mpsc::channel() until the worker closure returns
RxAlive(sid) == worker[sid].pc # "done"

\* a send that puts the command at the head of the queue
SendFront(q, sid, cmd) ==
  IF RxAlive(sid) THEN << [cmd |-> cmd, seq |-> sent[sid] + 1] >> \o q ELSE q
\* tx.send(cmd): appends when the receiver is alive, fails otherwise.  The
\* queue entry carries the command and its position in the enqueue order.
Send(q, sid, cmd) ==
  IF RxAlive(sid) THEN Append(q, [cmd |-> cmd, seq |-> sent[sid] + 1]) ELSE q
Sent(n, sid) == IF RxAlive(sid) THEN n + 1 ELSE n

\* a sender exists: the SshSession in the map (or held by disconnect()),
\* or a clone made by an exec() call that has not returned
TxAlive(sid) ==
  \/ handle[sid] = "live"
  \/ \E u \in ExecCallers : /\ caller[u].op = "exec"
                        /\ caller[u].pc \in {"exec_send", "exec_wait"}
                        /\ caller[u].sid = sid

\* ------------------------------------------------------------------ Init
Init ==
  /\ sessions  = [k \in KeySpace |-> None]
  /\ regLock   = NoThread
  /\ caller    = [u \in Threads |-> Idle]
  /\ task      = [s \in Sids |-> NoTask]
  /\ worker    = [s \in Sids |-> NoWorker]
  /\ queue     = [s \in Sids |-> << >>]
  /\ handle    = [s \in Sids |-> "none"]
  /\ sessLock  = [s \in Sids |-> NoThread]
  /\ transport = [s \in Sids |-> [timeout |-> 0, disconnects |-> 0]]
  /\ cmds      = 0
  /\ sent      = [s \in Sids |-> 0]
  /\ applied   = [s \in Sids |-> << >>]
  /\ events    = [s \in Sids |-> << >>]
  /\ removedBy = [s \in Sids |-> "nobody"]
  /\ tornDown  = [s \in Sids |-> FALSE]

\* =================================================================== API
\* number of connect() calls issued so far (spawned or still in their
\* synchronous part)
ConnectsIssued ==
  Cardinality({ s \in Sids : task[s] # NoTask })
  + Cardinality({ u \in Callers : caller[u].op = "connect" })

\* the behaviour is cut off once maxCmds commands were enqueued
Room(k, maxCmds) ==
  Get(sessions, k) # None =>
    cmds + Cardinality({ u \in ExecCallers : caller[u].pc = "exec_send" }) < maxCmds

\* write(): lock the map, get(&key), tx.send(Write) when present; the guard
\* is dropped at the end of the `if let`.
WriteTo(u, socket_id, server_id, data, maxCmds) ==
  /\ caller[u] = Idle
  /\ regLock = NoThread
  /\ LET key == Key(socket_id, server_id)
         sid == Get(sessions, key)
         cmd == WriteCmd(data)
     IN  /\ Room(key, maxCmds)
         /\ IF sid = None
              THEN UNCHANGED << queue, sent, cmds >>
              ELSE /\ queue' = [queue EXCEPT ![sid] = Send(@, sid, cmd)]
                   /\ sent'  = [sent  EXCEPT ![sid] = Sent(@, sid)]
                   /\ cmds'  = Sent(cmds, sid)
  /\ UNCHANGED << sessions, regLock, caller, task, worker, handle, sessLock,
                  transport, applied, events, removedBy >>
  /\ UNCHANGED tornDown

Write(u, maxCmds) ==
  \E <<c, s>> \in Targets, d \in Data : WriteTo(u, c, s, d, maxCmds)

\* resize(): as write(), with a Resize command.
ResizeTo(u, socket_id, server_id, cols, rows, maxCmds) ==
  /\ caller[u] = Idle
  /\ regLock = NoThread
  /\ LET key == Key(socket_id, server_id)
         sid == Get(sessions, key)
         cmd == ResizeCmd(cols, rows)
     IN  /\ Room(key, maxCmds)
         /\ IF sid = None
              THEN UNCHANGED << queue, sent, cmds >>
              ELSE /\ queue' = [queue EXCEPT ![sid] = Send(@, sid, cmd)]
                   /\ sent'  = [sent  EXCEPT ![sid] = Sent(@, sid)]
                   /\ cmds'  = Sent(cmds, sid)
  /\ UNCHANGED << sessions, regLock, caller, task, worker, handle, sessLock,
                  transport, applied, events, removedBy >>
  /\ UNCHANGED tornDown

Resize(u, maxCmds) ==
  \E <<c, s>> \in Targets, z \in Sizes : ResizeTo(u, c, s, z[1], z[2], maxCmds)

\* smallest unused session id: names the connect task and, later, its
\* SshSession, channel pair, Session mutex and worker
FreshSid == CHOOSE s \in Sids :
              /\ task[s] = NoTask
              /\ \A r \in Sids : r < s => task[r] # NoTask

\* a connect task that has not inserted its session yet
InFlight(t) == task[t].pc \in {"establish", "auth", "channel", "register"}
\* tornDown after disconnect_all(socket_id) has returned
TornDownAll(socket_id) ==
  [t \in Sids |-> tornDown[t] \/ (InFlight(t) /\ task[t].socket_id = socket_id)]

\* What the caller r does once self.disconnect() has returned:
\*   disconnect()      returns;
\*   connect()         spawns the connect task and returns;
\*   disconnect_all()  goes on with its for loop, returns after the last id.
AfterDisconnect(u, r) ==
  CASE r.op = "disconnect" ->
         /\ caller' = [caller EXCEPT ![u] = Idle]
         /\ tornDown' = [t \in Sids |->
               tornDown[t] \/ (InFlight(t) /\ task[t].key = Key(r.socket_id, r.server_id))]
         /\ UNCHANGED task
    [] r.op = "connect" ->
         /\ caller' = [caller EXCEPT ![u] = Idle]
         /\ UNCHANGED tornDown
         /\ \E cr \in Creds :
              task' = [task EXCEPT ![FreshSid] =
                 [pc |-> "establish", cred |-> cr,
                  socket_id |-> r.socket_id, server_id |-> r.server_id,
                  key |-> Key(r.socket_id, r.server_id)]]
    [] r.op = "disconnect_all" ->
         /\ caller' = [caller EXCEPT ![u] =
               IF r.server_ids = {} THEN Idle
               ELSE [r EXCEPT !.pc = "da_loop", !.sid = None, !.server_id = << >>]]
         /\ tornDown' = IF r.server_ids = {} THEN TornDownAll(r.socket_id) ELSE tornDown
         /\ UNCHANGED task

\* self.disconnect(), first part, on behalf of the call r: lock the map and
\* remove(&key).  None: the guard is dropped and disconnect() is over.
\* Some(session): the guard is a temporary of the `if let` scrutinee and
\* stays alive for the whole body; tx.send(Disconnect) is the first
\* statement of the body.
DisconnectRemove(u, r) ==
  /\ regLock = NoThread
  /\ LET key == Key(r.socket_id, r.server_id)
         sid == Get(sessions, key)
     IN  IF sid = None
           THEN /\ AfterDisconnect(u, r)
                /\ UNCHANGED << sessions, regLock, queue, sent, removedBy, cmds >>
           ELSE /\ sessions'  = Remove(sessions, key)
                /\ removedBy' = [removedBy EXCEPT ![sid] = "disconnect"]
                /\ regLock'   = u
                /\ queue'     = [queue EXCEPT ![sid] = Send(@, sid, DisconnectCmd)]
                /\ sent'      = [sent  EXCEPT ![sid] = Sent(@, sid)]
                /\ caller'    = [caller EXCEPT ![u] =
                                   [r EXCEPT !.pc = "disc_lock", !.sid = sid]]
                /\ UNCHANGED << task, tornDown >>
  /\ UNCHANGED << worker, handle, sessLock, transport, applied, events, cmds >>

\* disconnect(socket_id, server_id)
DisconnectOf(u, socket_id, server_id) ==
  /\ caller[u] = Idle
  /\ DisconnectRemove(u, [op |-> "disconnect", pc |-> "disc_remove",
                          socket_id |-> socket_id, server_id |-> server_id,
                          sid |-> None])

Disconnect(u) == \E <<c, s>> \in Targets : DisconnectOf(u, c, s)

\* connect(socket, config): self.disconnect(socket.id, server_id) first;
\* the connect task is spawned when it has returned.
Connect(u, maxConnects) ==
  /\ caller[u] = Idle
  /\ ConnectsIssued < maxConnects
  /\ \E <<c, s>> \in Targets :
       DisconnectRemove(u, [op |-> "connect", pc |-> "disc_remove",
                            socket_id |-> c, server_id |-> s, sid |-> None])

\* disconnect(), body: session.session.lock() blocks until the Session
\* mutex is free.
DisconnectLock(u) ==
  /\ caller[u].pc = "disc_lock"
  /\ sessLock[caller[u].sid] = NoThread
  /\ sessLock' = [sessLock EXCEPT ![caller[u].sid] = u]
  /\ caller'   = [caller EXCEPT ![u].pc = "disc_transport"]
  /\ UNCHANGED << sessions, regLock, task, worker, queue, handle, transport,
                  sent, applied, events, removedBy, cmds >>
  /\ UNCHANGED tornDown

\* disconnect(), body: sess.disconnect(..) on the transport; at the end of
\* the `if let` the Session guard, the removed SshSession (its tx) and the
\* map guard are dropped.
DisconnectTransport(u) ==
  /\ caller[u].pc = "disc_transport"
  /\ LET sid == caller[u].sid
     IN  /\ transport' = [transport EXCEPT ![sid].disconnects = @ + 1]
         /\ sessLock'  = [sessLock EXCEPT ![sid] = NoThread]
         /\ handle'    = [handle EXCEPT ![sid] = "dropped"]
  /\ regLock' = NoThread
  /\ AfterDisconnect(u, caller[u])
  /\ UNCHANGED << sessions, worker, queue, sent, applied, events, removedBy, cmds >>

\* the server ids disconnect_all(socket_id) collects from the keys of m
ServerIdsOf(m, socket_id) ==
  LET p == socket_id \o <<":">>
  IN  { StripPrefix(k, p) : k \in { x \in KeysOf(m) : HasPrefix(x, p) } }

\* disconnect_all(socket_id), first block: under the map lock, collect the
\* server id of every key that starts with "<socket_id>:"; the lock is
\* released before the loop.
DisconnectAll(u) ==
  /\ caller[u] = Idle
  /\ regLock = NoThread
  /\ \E c \in SocketIds \cup ForeignIds :
       LET ids == ServerIdsOf(sessions, c)
       IN  /\ tornDown' = IF ids = {} THEN TornDownAll(c) ELSE tornDown
           /\ caller' = [caller EXCEPT ![u] =
              IF ids = {} THEN Idle
              ELSE [op |-> "disconnect_all", pc |-> "da_loop",
                    socket_id |-> c, server_id |-> << >>, sid |-> None,
                    server_ids |-> ids,
                    snapshot |-> { sessions[k] : k \in
                       { x \in KeysOf(sessions) : HasPrefix(x, c \o <<":">>) } }]]
  /\ UNCHANGED << sessions, regLock, task, worker, queue, handle, sessLock,
                  transport, sent, applied, events, removedBy, cmds >>

\* disconnect_all(), for loop: self.disconnect(socket_id, &server_id) for
\* the next collected server id.
DisconnectAllLoop(u) ==
  /\ caller[u].pc = "da_loop"
  /\ \E s \in caller[u].server_ids :
       DisconnectRemove(u, [caller[u] EXCEPT !.server_id = s,
                                             !.server_ids = @ \ {s}])

\* exec(), first block: under the map lock, clone the tx of the session;
\* None is returned as Err("Session not found").
Exec(u, maxCmds) ==
  /\ caller[u] = Idle
  /\ regLock = NoThread
  /\ \E <<c, s>> \in Targets, cmd \in Commands :
       LET sid == Get(sessions, Key(c, s))
           r   == [op |-> "exec", command |-> cmd, sid |-> sid,
                   reply |-> "none"]
       IN  /\ Room(Key(c, s), maxCmds)
           /\ caller' = [caller EXCEPT ![u] =
                IF sid = None
                  THEN [pc |-> "exec_ret", result |-> "Err(Session not found)"] @@ r
                  ELSE [pc |-> "exec_send", result |-> "none"] @@ r]
  /\ UNCHANGED << sessions, regLock, task, worker, queue, handle, sessLock,
                  transport, sent, applied, events, removedBy, cmds >>
  /\ UNCHANGED tornDown

\* a send that is repeated
ExecSendTwice(u) ==
  /\ caller[u].pc = "exec_send"
  /\ LET sid == caller[u].sid
         cmd == ExecCmd(caller[u].command, u)
     IN  /\ queue' = [queue EXCEPT ![sid] = Send(Send(@, sid, cmd), sid, cmd)]
         /\ sent'  = [sent  EXCEPT ![sid] = Sent(@, sid)]
         /\ cmds'  = cmds + 1
         /\ caller' = [caller EXCEPT ![u].pc = "exec_wait",
                                     ![u].reply = "pending"]
  /\ UNCHANGED << sessions, regLock, task, worker, handle, sessLock,
                  transport, applied, events, removedBy >>
  /\ UNCHANGED tornDown
\* exec(): create the reply channel and tx.send(Exec{..}); a send error
\* (receiver gone) is returned to the caller.
ExecSend(u) ==
  /\ caller[u].pc = "exec_send"
  /\ LET sid == caller[u].sid
         cmd == ExecCmd(caller[u].command, u)
     IN  IF RxAlive(sid)
           THEN /\ queue' = [queue EXCEPT ![sid] = Send(@, sid, cmd)]
                /\ sent'  = [sent  EXCEPT ![sid] = Sent(@, sid)]
                /\ cmds'  = cmds + 1
                /\ caller' = [caller EXCEPT ![u].pc = "exec_wait",
                                            ![u].reply = "pending"]
           ELSE /\ caller' = [caller EXCEPT ![u].pc = "exec_ret",
                                            ![u].result = "Err(send)"]
                /\ UNCHANGED << queue, sent, cmds >>
  /\ UNCHANGED << sessions, regLock, task, worker, handle, sessLock,
                  transport, applied, events, removedBy >>
  /\ UNCHANGED tornDown

\* exec(): reply_rx.recv() returns the reply, or an error when reply_tx was
\* dropped without a reply.
ExecWait(u) ==
  /\ caller[u].pc = "exec_wait"
  /\ caller[u].reply # "pending"
  /\ caller' = [caller EXCEPT ![u].pc = "exec_ret",
                  ![u].result = IF caller[u].reply = "dropped"
                                  THEN "Err(recv)" ELSE caller[u].reply]
  /\ UNCHANGED << sessions, regLock, task, worker, queue, handle, sessLock,
                  transport, sent, applied, events, removedBy, cmds >>
  /\ UNCHANGED tornDown

\* exec() hands its Result to the awaiting caller.
ExecReturn(u) ==
  /\ caller[u].pc = "exec_ret"
  /\ caller' = [caller EXCEPT ![u] = Idle]
  /\ UNCHANGED << sessions, regLock, task, worker, queue, handle, sessLock,
                  transport, sent, applied, events, removedBy, cmds >>
  /\ UNCHANGED tornDown

\* ========================================================== connect task
ErrorEvent(m)  == [event |-> "ssh-error", message |-> m]
NoAuthMethod   == "No authentication method provided"
StatusEvent(st) ==
  [event |-> "ssh-status", status |-> st,
   message |-> IF st = "connected" THEN "Some(Connected to ip)" ELSE "None"]

\* an error branch without its `return`: the task goes on
FailNoReturn(t, m) ==
  /\ UNCHANGED tornDown
  /\ events' = [events EXCEPT ![t] = Append(@, ErrorEvent(m))]
  /\ task'   = [task EXCEPT ![t].pc =
                  CASE @ = "establish" -> "auth"
                    [] @ = "auth"      -> "channel"
                    [] OTHER           -> "register"]
\* an error branch of the connect task: emit one ssh-error and return
Fail(t, m) ==
  /\ events' = [events EXCEPT ![t] = Append(@, ErrorEvent(m))]
  /\ task'   = [task EXCEPT ![t].pc = "failed"]
  /\ tornDown' = [tornDown EXCEPT ![t] = FALSE]

\* a successful phase of the connect task
Advance(t, next) ==
  /\ task' = [task EXCEPT ![t].pc = next]
  /\ UNCHANGED << events, tornDown >>

\* Resolving (to_socket_addrs), dialing (connect_timeout, 15 s) and the
\* handshake (set_timeout(15000), handshake()); each failure emits one
\* ssh-error and returns.
Establish(t) ==
  /\ task[t].pc = "establish"
  /\ \/ /\ Fail(t, "Invalid address")
        /\ UNCHANGED transport
     \/ /\ Fail(t, "Connection timeout or failed")
        /\ UNCHANGED transport
     \/ /\ transport' = [transport EXCEPT ![t].timeout = HandshakeTimeout]
        /\ \/ Fail(t, "SSH handshake failed")
           \/ Advance(t, "auth")
  /\ UNCHANGED << sessions, regLock, caller, worker, queue, handle, sessLock,
                  sent, applied, removedBy, cmds >>

\* Authentication, one credential path: password, else private key, else
\* the "no method" error; on success ssh-status connected is emitted.
Authenticate(t) ==
  /\ task[t].pc = "auth"
  /\ \/ /\ task[t].cred = "password"
        /\ Fail(t, "Authentication failed")
     \/ /\ task[t].cred = "private_key"
        /\ Fail(t, "Private key authentication failed")
     \/ /\ task[t].cred = "none"
        /\ Fail(t, NoAuthMethod)
     \/ /\ task[t].cred # "none"
        /\ events' = [events EXCEPT ![t] = Append(@, StatusEvent("connected"))]
        /\ task'   = [task EXCEPT ![t].pc = "channel", ![t].cred = "moved"]
        /\ UNCHANGED tornDown
  /\ UNCHANGED << sessions, regLock, caller, worker, queue, handle, sessLock,
                  transport, sent, applied, removedBy, cmds >>

\* Channel setup: channel_session(), request_pty(), request_pty_size()
\* (result ignored), shell(); each failure emits one ssh-error and returns.
ChannelSetup(t) ==
  /\ task[t].pc = "channel"
  /\ \/ Fail(t, "Failed to create channel")
     \/ Fail(t, "Failed to request PTY")
     \/ Fail(t, "Failed to start shell")
     \/ Advance(t, "register")
  /\ UNCHANGED << sessions, regLock, caller, worker, queue, handle, sessLock,
                  transport, sent, applied, removedBy, cmds >>

\* set_timeout(100); mpsc::channel(); sessions.lock().insert(key, ssh_session)
\* (HashMap::insert returns and drops the value it replaces); then
\* spawn_blocking of the worker closure.
Register(t) ==
  /\ task[t].pc = "register"
  /\ regLock = NoThread
  /\ LET old == Get(sessions, task[t].key)
     IN  /\ sessions' = Insert(sessions, task[t].key, t)
         /\ handle' = [s \in Sids |-> IF s = t THEN "live"
                                      ELSE IF s = old THEN "dropped"
                                      ELSE handle[s]]
         /\ removedBy' = [s \in Sids |-> IF s = old THEN "insert"
                                         ELSE removedBy[s]]
  /\ transport' = [transport EXCEPT ![t].timeout = PollTimeout]
  /\ worker' = [worker EXCEPT ![t] = [pc |-> "drain", prev_timeout |-> 0,
                                       reply_tx |-> NoThread, cause |-> "none"]]
  /\ task'   = [task EXCEPT ![t].pc = "done"]
  /\ tornDown' = [tornDown EXCEPT ![t] = FALSE]
  /\ UNCHANGED << regLock, caller, queue, sessLock, sent, applied, events, cmds >>

\* ================================================================ worker
\* a drain phase that takes Disconnect as one more command and goes on
WorkerRecvNoBreak(w) ==
  /\ worker[w].pc = "drain"
  /\ queue[w] # << >>
  /\ LET cmd == Head(queue[w]).cmd
     IN  /\ queue'   = [queue EXCEPT ![w] = Tail(@)]
         /\ applied' = [applied EXCEPT ![w] = Append(@, Head(queue[w]))]
         /\ worker'  = [worker EXCEPT
               ![w].pc = IF cmd.type = "Exec" THEN "exec_lock" ELSE "drain",
               ![w].reply_tx = IF cmd.type = "Exec" THEN cmd.reply_tx ELSE NoThread]
  /\ UNCHANGED << sessions, regLock, caller, task, handle, sessLock,
                  transport, sent, events, removedBy, cmds >>
  /\ UNCHANGED tornDown
\* Drain phase, one rx.try_recv() that does not return Err(Empty):
\*   Ok(Write) / Ok(Resize)  applied to the shell channel, keep draining
\*   Ok(Disconnect)          break 'outer
\*   Ok(Exec)                run the command (next two steps)
\*   Err(Disconnected)       the queue is empty and no sender is left
WorkerRecv(w) ==
  /\ worker[w].pc = "drain"
  /\ IF queue[w] # << >>
       THEN LET cmd == Head(queue[w]).cmd
            IN  /\ queue'   = [queue EXCEPT ![w] = Tail(@)]
                /\ applied' = [applied EXCEPT ![w] = Append(@, Head(queue[w]))]
                /\ worker'  = [worker EXCEPT
                      ![w].pc = CASE cmd.type = "Disconnect" -> "exit"
                                  [] cmd.type = "Exec"       -> "exec_lock"
                                  [] OTHER                   -> "drain",
                      ![w].reply_tx = IF cmd.type = "Exec" THEN cmd.reply_tx
                                      ELSE NoThread,
                      ![w].cause = IF cmd.type = "Disconnect" THEN "Disconnect"
                                   ELSE "none"]
       ELSE /\ ~ TxAlive(w)
            /\ worker' = [worker EXCEPT ![w].pc = "exit",
                                        ![w].cause = "Disconnected"]
            /\ UNCHANGED << queue, applied, cmds >>
  /\ UNCHANGED << sessions, regLock, caller, task, handle, sessLock,
                  transport, sent, events, removedBy, cmds >>
  /\ UNCHANGED tornDown

\* Exec: session_inner.lock(); prev_timeout = sess.timeout();
\* sess.set_timeout(60000)
WorkerExecLock(w) ==
  /\ worker[w].pc = "exec_lock"
  /\ sessLock[w] = NoThread
  /\ sessLock'  = [sessLock EXCEPT ![w] = "worker"]
  /\ worker'    = [worker EXCEPT ![w].pc = "exec_run",
                                 ![w].prev_timeout = transport[w].timeout]
  /\ transport' = [transport EXCEPT ![w].timeout = ExecTimeout]
  /\ UNCHANGED << sessions, regLock, caller, task, queue, handle, sent,
                  applied, events, removedBy, cmds >>
  /\ UNCHANGED tornDown

\* reply_tx.send(result)
Reply(u, res) ==
  [caller EXCEPT ![u].reply = IF @ = "pending" THEN res ELSE "twice"]

\* an Exec whose failure returns before the timeout is restored
WorkerExecRunNoRestore(w) ==
  /\ worker[w].pc = "exec_run"
  /\ \E res \in ExecResults :
       /\ caller' = Reply(worker[w].reply_tx, res)
       /\ transport' = [transport EXCEPT ![w].timeout =
             IF res = "Err(e)" THEN @ ELSE worker[w].prev_timeout]
  /\ sessLock'  = [sessLock EXCEPT ![w] = NoThread]
  /\ worker'    = [worker EXCEPT ![w].pc = "drain", ![w].reply_tx = NoThread,
                                 ![w].prev_timeout = 0]
  /\ UNCHANGED << sessions, regLock, task, queue, handle, sent, applied,
                  events, removedBy, cmds >>
  /\ UNCHANGED tornDown
\* an Exec whose failure breaks out of the worker loop
WorkerExecRunFatal(w) ==
  /\ worker[w].pc = "exec_run"
  /\ \E res \in ExecResults :
       /\ caller' = Reply(worker[w].reply_tx, res)
       /\ worker' = [worker EXCEPT
             ![w].pc = IF res = "Err(e)" THEN "exit" ELSE "drain",
             ![w].reply_tx = NoThread, ![w].prev_timeout = 0]
  /\ transport' = [transport EXCEPT ![w].timeout = worker[w].prev_timeout]
  /\ sessLock'  = [sessLock EXCEPT ![w] = NoThread]
  /\ UNCHANGED << sessions, regLock, task, queue, handle, sent, applied,
                  events, removedBy, cmds >>
  /\ UNCHANGED tornDown
\* Exec: channel_session / exec / read_to_string, each may fail; then
\* sess.set_timeout(prev_timeout), the Session guard is dropped and the
\* result is sent on reply_tx.
WorkerExecRun(w) ==
  /\ worker[w].pc = "exec_run"
  /\ \E res \in ExecResults :
       caller' = Reply(worker[w].reply_tx, res)
  /\ transport' = [transport EXCEPT ![w].timeout = worker[w].prev_timeout]
  /\ sessLock'  = [sessLock EXCEPT ![w] = NoThread]
  /\ worker'    = [worker EXCEPT ![w].pc = "drain", ![w].reply_tx = NoThread,
                                 ![w].prev_timeout = 0]
  /\ UNCHANGED << sessions, regLock, task, queue, handle, sent, applied,
                  events, removedBy, cmds >>
  /\ UNCHANGED tornDown

\* rx.try_recv() returns Err(Empty), then the poll phase:
\* channel.read(&mut buffer)
\*   Ok(0)               EOF, break 'outer
\*   Ok(n)               emit ssh-data, loop
\*   TimedOut/WouldBlock loop
\*   other error         break 'outer
WorkerPoll(w) ==
  /\ worker[w].pc = "drain"
  /\ queue[w] = << >>
  /\ TxAlive(w)
  /\ \E outcome \in {"eof", "data", "timeout", "error"} :
       worker' = [worker EXCEPT
                    ![w].pc = IF outcome \in {"eof", "error"} THEN "exit" ELSE "drain",
                    ![w].cause = IF outcome \in {"eof", "error"} THEN outcome ELSE "none"]
  /\ UNCHANGED << sessions, regLock, caller, task, queue, handle, sessLock,
                  transport, sent, applied, events, removedBy, cmds >>
  /\ UNCHANGED tornDown

\* an exit that keeps the Session guard until the closure returns
WorkerExitDisconnectHolding(w) ==
  /\ worker[w].pc = "exit"
  /\ sessLock[w] = NoThread
  /\ transport' = [transport EXCEPT ![w].disconnects = @ + 1]
  /\ sessLock'  = [sessLock EXCEPT ![w] = "worker"]
  /\ worker'    = [worker EXCEPT ![w].pc = "cleanup"]
  /\ UNCHANGED << sessions, regLock, caller, task, queue, handle,
                  sent, applied, events, removedBy, cmds >>
  /\ UNCHANGED tornDown
\* Exit: channel.send_eof(), channel.close(); session_inner.lock() and
\* sess.disconnect(..); the guard is dropped at the end of the `if let`.
WorkerExitDisconnect(w) ==
  /\ worker[w].pc = "exit"
  /\ sessLock[w] = NoThread
  /\ transport' = [transport EXCEPT ![w].disconnects = @ + 1]
  /\ worker'    = [worker EXCEPT ![w].pc = "cleanup"]
  /\ UNCHANGED << sessions, regLock, caller, task, queue, handle, sessLock,
                  sent, applied, events, removedBy, cmds >>
  /\ UNCHANGED tornDown

\* Exit: sessions_inner.lock().remove(&session_key_inner); the removed
\* SshSession, if any, is dropped at once.
WorkerCleanup(w) ==
  /\ worker[w].pc = "cleanup"
  /\ regLock = NoThread
  /\ LET old == Get(sessions, task[w].key)
     IN  /\ sessions' = Remove(sessions, task[w].key)
         /\ handle' = [s \in Sids |-> IF s = old THEN "dropped" ELSE handle[s]]
         /\ removedBy' = [s \in Sids |->
               IF s = old THEN (IF s = w THEN "worker" ELSE "other worker")
                          ELSE removedBy[s]]
  /\ worker' = [worker EXCEPT ![w].pc = "emit"]
  /\ UNCHANGED << regLock, caller, task, queue, sessLock, transport, sent,
                  applied, events, cmds >>
  /\ UNCHANGED tornDown

\* a receiver whose drop leaves the queued commands alone
KeepQueued(w) == caller
\* the callers after rx of w was dropped with its queued commands: the
\* reply_tx of a queued Exec is dropped, so its reply_rx.recv() fails
DropQueued(w) ==
  [u \in Threads |->
     IF \E i \in 1 .. Len(queue[w]) :
           queue[w][i].cmd.type = "Exec" /\ queue[w][i].cmd.reply_tx = u
       THEN [caller[u] EXCEPT !.reply = IF @ = "pending" THEN "dropped" ELSE @]
       ELSE caller[u]]

\* Exit: emit ssh-status disconnected; the closure returns and drops rx
\* with every command still queued.
WorkerFinish(w) ==
  /\ worker[w].pc = "emit"
  /\ events' = [events EXCEPT ![w] = Append(@, StatusEvent("disconnected"))]
  /\ caller' = DropQueued(w)
  /\ queue'  = [queue EXCEPT ![w] = << >>]
  /\ worker' = [worker EXCEPT ![w].pc = "done", ![w].cause = "none"]
  /\ UNCHANGED << sessions, regLock, task, handle, sessLock, transport,
                  sent, applied, removedBy, cmds >>
  /\ UNCHANGED tornDown

\* ================================================================== Next
\* every step of every thread, with at most maxConnects connect() calls and
\* maxCmds enqueued commands
Step(maxConnects, maxCmds) ==
  \/ \E u \in Callers : Connect(u, maxConnects)
  \/ \E u \in Callers : Write(u, maxCmds)
  \/ \E u \in Callers : Resize(u, maxCmds)
  \/ \E u \in Callers : Disconnect(u)
  \/ \E u \in Callers : DisconnectLock(u)
  \/ \E u \in Callers : DisconnectTransport(u)
  \/ \E u \in Callers : DisconnectAll(u)
  \/ \E u \in Callers : DisconnectAllLoop(u)
  \/ \E u \in ExecCallers : Exec(u, maxCmds)
  \/ \E u \in ExecCallers : ExecSend(u)
  \/ \E u \in ExecCallers : ExecWait(u)
  \/ \E u \in ExecCallers : ExecReturn(u)
  \/ \E t \in Sids : Establish(t)
  \/ \E t \in Sids : Authenticate(t)
  \/ \E t \in Sids : ChannelSetup(t)
  \/ \E t \in Sids : Register(t)
  \/ \E w \in Sids : WorkerRecv(w)
  \/ \E w \in Sids : WorkerExecLock(w)
  \/ \E w \in Sids : WorkerExecRun(w)
  \/ \E w \in Sids : WorkerPoll(w)
  \/ \E w \in Sids : WorkerExitDisconnect(w)
  \/ \E w \in Sids : WorkerCleanup(w)
  \/ \E w \in Sids : WorkerFinish(w)

Next == Step(MaxConnects, MaxCmds)

Spec == Init /\ [][Next]_vars

\* one connect() call, SessionCmds commands
SessionNext == Step(1, SessionCmds)

SessionSpec == Init /\ [][SessionNext]_vars

\* Scheduling: every thread that can take its next step takes it in the
\* end (the threads of the blocking pool run in parallel, a lock is
\* released after finitely many steps of its holder, and a transport call,
\* the remote command of an Exec included, ends or times out).  Nothing
\* forces an API call to be made or the remote end to close the shell.
Fairness ==
  /\ \A u \in Callers :
       /\ WF_vars(DisconnectLock(u))
       /\ WF_vars(DisconnectTransport(u))
       /\ WF_vars(DisconnectAllLoop(u))
  /\ \A u \in ExecCallers :
       /\ WF_vars(ExecSend(u))
       /\ WF_vars(ExecWait(u))
       /\ WF_vars(ExecReturn(u))
  /\ \A t \in Sids :
       /\ WF_vars(Establish(t))
       /\ WF_vars(Authenticate(t))
       /\ WF_vars(ChannelSetup(t))
       /\ WF_vars(Register(t))
       /\ WF_vars(WorkerRecv(t))
       /\ WF_vars(WorkerExecLock(t))
       /\ WF_vars(WorkerExecRun(t))
       /\ WF_vars(WorkerExitDisconnect(t))
       /\ WF_vars(WorkerCleanup(t))
       /\ WF_vars(WorkerFinish(t))

SessionLive == Init /\ [][SessionNext]_vars /\ Fairness

\* ================================================================ claims
Started(s)    == task[s] # NoTask
KeyOf(s)      == task[s].key
Registered(s) == Started(s) /\ Get(sessions, KeyOf(s)) = s
\* the worker of s was spawned and has not finished its exit cleanup
WorkerAlive(s) == worker[s].pc \notin {"none", "done"}
\* the SshSession of s was in the map at some time
WasRegistered(s) == handle[s] # "none"

\* s was torn down: out of the map, its SshSession dropped and its transport
\* disconnected, by disconnect() (which enqueues Disconnect) or by the exit
\* cleanup of its own worker
TornDown(s) ==
  /\ ~ Registered(s)
  /\ handle[s] = "dropped"
  /\ transport[s].disconnects >= 1
  /\ removedBy[s] \in {"disconnect", "worker"}

\* C1: the map holds at most one handle per key (it is a map), and when a
\* new handle is inserted under a key, the key holds no handle at that
\* moment and every handle registered under the key before was torn down:
\* an insert never replaces a still-registered handle.
C1_InsertAfterTeardown ==
  [][ \A k \in KeySpace :
        (sessions'[k] # sessions[k] /\ sessions'[k] # None) =>
          /\ sessions[k] = None
          /\ \A s \in Sids :
               (Started(s) /\ KeyOf(s) = k /\ WasRegistered(s)) => TornDown(s)
    ]_vars

\* C2: for every key, at most one worker started for that key has not yet
\* finished its exit cleanup.
C2_OneWorkerPerKey ==
  \A k \in KeySpace :
    Cardinality({ s \in Sids : Started(s) /\ KeyOf(s) = k /\ WorkerAlive(s) }) <= 1

\* C3: a handle leaves the map only through the exit cleanup of its own
\* worker or through a disconnect() call for its key; never through the
\* cleanup of another session's worker, and never by being overwritten.
C3_RemovedByOwnerOnly ==
  \A s \in Sids : removedBy[s] \in {"nobody", "disconnect", "worker"}

\* a thread that holds the map lock and waits for a Session mutex, or makes
\* a transport call
WaitsForSessionLock(u) == caller[u].pc = "disc_lock"
InTransportCall(u)     == caller[u].pc = "disc_transport"

\* C7: a thread that holds the registry lock is neither waiting for a
\* session's transport lock nor inside a transport call.
C7_RegistryLockMapOnly ==
  \A u \in Threads :
    regLock = u => ~ WaitsForSessionLock(u) /\ ~ InTransportCall(u)

\* the map lock is held by a disconnect() of session a that waits for a's
\* Session mutex (held by a's worker for the length of an Exec) or is inside
\* the transport disconnect of a
RegistryHeldForSession(a) ==
  \E u \in Threads : /\ regLock = u
                     /\ caller[u].sid = a
                     /\ WaitsForSessionLock(u) \/ InTransportCall(u)

\* session b has something to do that needs the map lock: its connect task
\* is about to insert it, its worker is about to remove it, or it is
\* registered, so that write(), resize(), exec() or disconnect() for it
\* would look it up
NeedsRegistry(b) ==
  \/ task[b].pc = "register"
  \/ worker[b].pc = "cleanup"
  \/ Registered(b)

\* C8: no operation of a session b has to wait for an Exec or a disconnect
\* of a session a under another key.
C8_UnrelatedSessionsIndependent ==
  \A a, b \in Sids :
    (Started(a) /\ Started(b) /\ KeyOf(a) # KeyOf(b) /\ NeedsRegistry(b))
      => ~ RegistryHeldForSession(a)

\* ---- witnesses and further claims
ErrorsOf(t) ==
  Cardinality({ i \in 1 .. Len(events[t]) : events[t][i].event = "ssh-error" })

\* C4: an exec() call that found its session always returns, with the
\* worker's reply or with a failure; a reply channel gets one reply at
\* most, and is not left pending once its Exec is neither queued nor being
\* run.
ExecWaiting(u) == caller[u].pc \in {"exec_send", "exec_wait"}
ExecQueued(u) ==
  \E i \in 1 .. Len(queue[caller[u].sid]) :
     /\ queue[caller[u].sid][i].cmd.type = "Exec"
     /\ queue[caller[u].sid][i].cmd.reply_tx = u
ExecOutcomes == ExecResults \cup {"Err(Session not found)", "Err(send)", "Err(recv)"}
ExecReplyWellFormed ==
  \A u \in ExecCallers :
    caller[u].op = "exec" =>
      /\ caller[u].reply # "twice"
      /\ caller[u].pc = "exec_ret" => caller[u].result \in ExecOutcomes
      /\ (caller[u].pc = "exec_wait" /\ caller[u].reply = "pending") =>
            ExecQueued(u) \/ worker[caller[u].sid].reply_tx = u
C4_ExecResolvesOnce ==
  /\ \A u \in ExecCallers : ExecWaiting(u) ~> (caller[u].pc = "exec_ret")
  /\ [] ExecReplyWellFormed

\* an exec() returned a failure because the worker exited with the Exec
\* still in its queue
C4_Witness ==
  \E u \in ExecCallers :
    caller[u].pc = "exec_ret" /\ caller[u].result = "Err(recv)"

\* C5: the worker of a session receives (and applies) the commands of the
\* session in their enqueue order: the i-th command it receives is the
\* i-th that was enqueued, so none is reordered, skipped or duplicated.
C5_CommandsAppliedInOrder ==
  \A s \in Sids : \A i \in 1 .. Len(applied[s]) : applied[s][i].seq = i

\* two write() calls on one session were applied
C5_Witness ==
  \E s \in Sids :
    /\ Len(applied[s]) >= 2
    /\ applied[s][1].cmd.type = "Write"
    /\ applied[s][2].cmd.type = "Write"

\* C6: a step of disconnect_all(id), for any string id, takes no session
\* of another owner out of the map, enqueues nothing on it and does not
\* touch its transport; and when disconnect_all returns, every session it
\* found under "<id>:" is out of the map.
OwnerOf(s) == task[s].socket_id
DisconnectAllStep(u) ==
  caller[u].op = "disconnect_all" /\ caller'[u] # caller[u]
OthersUntouched(u) ==
  \A s \in Sids :
    (Started(s) /\ OwnerOf(s) # caller[u].socket_id) =>
      /\ Registered(s) => Get(sessions', KeyOf(s)) = s
      /\ queue'[s] = queue[s]
      /\ transport'[s] = transport[s]
      /\ handle'[s] = handle[s]
OwnRemoved(u) ==
  caller'[u] = Idle =>
    \A s \in caller[u].snapshot : Get(sessions', KeyOf(s)) # s
C6_DisconnectAllAnyId ==
  [][ \A u \in Callers :
        DisconnectAllStep(u) => OthersUntouched(u) /\ OwnRemoved(u) ]_vars

\* C9: a connect attempt that fails emits exactly one ssh-error, and that
\* attempt never has a map entry or a worker; an attempt that emits no
\* ssh-error has not failed.  A connect without password and private key
\* never gets past authentication, and its one error is the "no method"
\* error unless resolving, dialing or the handshake failed first.
EarlierErrors ==
  { "Invalid address", "Connection timeout or failed", "SSH handshake failed" }
C9_FailedConnectReportsOnce ==
  \A t \in Sids :
    Started(t) =>
      /\ ErrorsOf(t) <= 1
      /\ (task[t].pc = "failed") <=> (ErrorsOf(t) = 1)
      /\ ErrorsOf(t) = 1 =>
           /\ events[t][Len(events[t])].event = "ssh-error"
           /\ handle[t] = "none"
           /\ worker[t] = NoWorker
           /\ \A k \in KeySpace : sessions[k] # t
      /\ task[t].cred = "none" =>
           /\ task[t].pc \in {"establish", "auth", "failed"}
           /\ task[t].pc = "failed" =>
                /\ Len(events[t]) = 1
                /\ events[t][1].message \in EarlierErrors \cup {NoAuthMethod}

\* a connect without credentials failed with the "no method" error
C9_Witness ==
  \E t \in Sids :
    /\ Started(t)
    /\ task[t].pc = "failed"
    /\ task[t].cred = "none"
    /\ events[t] = << ErrorEvent(NoAuthMethod) >>

\* C10: write(), resize() and disconnect() for a key that is not in the
\* map change nothing: no queue, no transport, no notification, no map
\* entry, no lock; the caller is back at once.
AbsentKeyCall(u, c, s) ==
  /\ sessions[Key(c, s)] = None
  /\ \/ \E d \in Data : WriteTo(u, c, s, d, SessionCmds)
     \/ \E z \in Sizes : ResizeTo(u, c, s, z[1], z[2], SessionCmds)
     \/ DisconnectOf(u, c, s)
C10_AbsentKeyNoOp ==
  [][ \A u \in Callers : \A x \in Targets :
        AbsentKeyCall(u, x[1], x[2]) =>
          /\ UNCHANGED << sessions, regLock, queue, handle, sessLock,
                          transport, sent, events, worker, task >>
          /\ caller'[u] = Idle ]_vars

\* a caller is free to call, one key is absent and another one is
\* registered with a live worker
C10_Witness ==
  /\ regLock = NoThread
  /\ \E u \in Callers : caller[u] = Idle
  /\ \E k \in KeySpace : sessions[k] = None
  /\ \E s \in Sids : Registered(s) /\ WorkerAlive(s)

\* C11 (as claimed): an exec() for an absent key returns "Session not
\* found", enqueues nothing and leaves the map alone; an exec() that found
\* its key registered enqueues one Exec on the queue of that session and
\* changes no other queue.
ExecLookup(u) == caller[u] = Idle /\ caller'[u] # Idle
ExecLookupFrame(u) ==
  ExecLookup(u) =>
    /\ UNCHANGED << sessions, queue, sent >>
    /\ caller'[u].sid = None <=> caller'[u].pc = "exec_ret"
    /\ caller'[u].sid = None => caller'[u].result = "Err(Session not found)"
    /\ caller'[u].sid # None => sessions[task[caller'[u].sid].key] = caller'[u].sid
ExecSending(u) == caller[u].pc = "exec_send" /\ caller'[u].pc # "exec_send"
EnqueuedOne(u) ==
  LET sid == caller[u].sid
  IN  /\ queue'[sid] = Append(queue[sid],
                              [cmd |-> ExecCmd(caller[u].command, u),
                               seq |-> sent[sid] + 1])
      /\ \A s \in Sids \ {sid} : queue'[s] = queue[s]
      /\ UNCHANGED sessions
C11_ExecEnqueuesOne ==
  [][ \A u \in ExecCallers :
        /\ ExecLookupFrame(u)
        /\ ExecSending(u) => EnqueuedOne(u) ]_vars

\* C11 (amended): as above, but the found session enqueues one Exec only
\* if its worker has not returned yet; if it has, exec() fails with the
\* send error and no queue changes.  No other step of the call enqueues.
C11_ExecEnqueuesAtMostOne ==
  [][ \A u \in ExecCallers :
        /\ ExecLookupFrame(u)
        /\ ExecSending(u) =>
             IF RxAlive(caller[u].sid)
               THEN EnqueuedOne(u) /\ caller'[u].pc = "exec_wait"
               ELSE /\ UNCHANGED << sessions, queue >>
                    /\ caller'[u].pc = "exec_ret"
                    /\ caller'[u].result = "Err(send)"
        /\ (caller[u].pc \in {"exec_wait", "exec_ret"} /\ caller'[u] # caller[u]) =>
             \A s \in Sids : Len(queue'[s]) <= Len(queue[s]) ]_vars

\* an exec() has its Exec in the queue of its session while a session
\* under another key is registered
C11_Witness ==
  \E u \in ExecCallers :
    /\ caller[u].pc = "exec_wait"
    /\ ExecQueued(u)
    /\ \E s \in Sids : s # caller[u].sid /\ Registered(s)
                       /\ KeyOf(s) # KeyOf(caller[u].sid)

\* C12: the step in which an Exec fails gives the error to the reply of
\* that call and to nothing else: the worker is back in its drain phase,
\* the map, the queues, the notifications and the transport's disconnect
\* count are unchanged; a worker never leaves its loop from inside an Exec.
ExecFails(w) ==
  /\ worker[w].pc = "exec_run"
  /\ worker'[w].pc # "exec_run"
  /\ caller'[worker[w].reply_tx].reply = "Err(e)"
Disconnected(s) ==
  \E i \in 1 .. Len(events[s]) : events[s][i] = StatusEvent("disconnected")
C12_ExecFailureIsLocal ==
  [][ \A w \in Sids :
        /\ ExecFails(w) =>
             /\ worker'[w].pc = "drain"
             /\ UNCHANGED << sessions, queue, events, handle >>
             /\ transport'[w].disconnects = transport[w].disconnects
             /\ \A u \in Threads \ {worker[w].reply_tx} : caller'[u] = caller[u]
        /\ worker[w].pc \in {"exec_lock", "exec_run"} =>
             worker'[w].pc \in {"exec_lock", "exec_run", "drain"} ]_vars

\* an Exec has failed, its caller has the error, and the session is still
\* registered with its worker in the loop and no disconnected status
C12_Witness ==
  \E u \in ExecCallers :
    /\ caller[u].pc = "exec_wait"
    /\ caller[u].reply = "Err(e)"
    /\ Registered(caller[u].sid)
    /\ worker[caller[u].sid].pc = "drain"
    /\ ~ Disconnected(caller[u].sid)

\* C13: the exit of a worker runs once on every exit path: at most one
\* disconnected status (without message) per worker, exactly one once the
\* worker has returned, the exit steps in their order, no command received
\* after the exit decision; and the cleanup of a worker that left its loop
\* on a zero-byte read leaves the key of its session without entry and
\* takes no entry of another session out of the map.
Exiting(w) == worker[w].pc \in {"exit", "cleanup", "emit"}
DisconnectedCount(w) ==
  Cardinality({ i \in 1 .. Len(events[w]) :
                  events[w][i].event = "ssh-status" /\ events[w][i].status = "disconnected" })
ExitRunsOnce(w) ==
  /\ DisconnectedCount(w) <= 1
  /\ DisconnectedCount(w) = 1 <=> worker[w].pc = "done"
  /\ \A i \in 1 .. Len(events[w]) :
       events[w][i].event = "ssh-status" /\ events[w][i].status = "disconnected"
         => events[w][i].message = "None"
  /\ DisconnectedCount(w)' <= 1
ExitInOrder(w) ==
  /\ Exiting(w) => applied'[w] = applied[w]
  /\ worker[w].pc = "exit"    => worker'[w].pc \in {"exit", "cleanup"}
  /\ worker[w].pc = "cleanup" => worker'[w].pc \in {"cleanup", "emit"}
  /\ worker[w].pc = "emit"    => worker'[w].pc \in {"emit", "done"}
  /\ worker[w].pc = "done"    => worker'[w].pc = "done"
CleansUp(w) == worker[w].pc = "cleanup" /\ worker'[w].pc = "emit"
RemovesOwnEntryOnly(w) ==
  /\ sessions'[KeyOf(w)] = None
  /\ \A k \in KeySpace : sessions[k] # w => sessions'[k] = sessions[k]
C13_ExitCleanupOnce ==
  [][ \A w \in Sids :
        /\ ExitRunsOnce(w)
        /\ ExitInOrder(w)
        /\ (CleansUp(w) /\ worker[w].cause = "eof") => RemovesOwnEntryOnly(w) ]_vars

\* C14: an attempt has emitted the connected status only if its channel
\* setup has succeeded (the task is about to insert, or has inserted and
\* started the worker), and an attempt that emitted connected emits no
\* error notification.
Connected(t) ==
  \E i \in 1 .. Len(events[t]) :
     events[t][i].event = "ssh-status" /\ events[t][i].status = "connected"
ChannelSetupDone(t) == task[t].pc \in {"register", "done"}
C14_ConnectedOnlyWhenRunning ==
  \A t \in Sids :
    (Started(t) /\ Connected(t)) => ChannelSetupDone(t) /\ ErrorsOf(t) = 0

\* C15 (as claimed): the worker of a session that disconnect() took out of
\* the map leaves its loop on the Disconnect command, having received
\* every command enqueued before it and none enqueued after it.
Last(q) == q[Len(q)]
Returns(w) == worker[w].pc = "emit" /\ worker'[w].pc = "done"
C15_DisconnectObserved ==
  [][ \A w \in Sids :
        (Returns(w) /\ removedBy[w] = "disconnect") =>
           /\ worker[w].cause = "Disconnect"
           /\ applied[w] # << >>
           /\ Last(applied[w]).cmd = DisconnectCmd
           /\ \A i \in 1 .. Len(applied[w]) : applied[w][i].seq = i ]_vars

\* C15 (amended): when disconnect() returns, its key has no entry; the
\* worker of the session it removed returns in the end and emits
\* disconnected, on the Disconnect command or on an earlier end of the
\* shell channel; a worker that receives the Disconnect has received every
\* command enqueued before it, in order, and receives nothing after it.
DisconnectReturns(u) == caller[u].op = "disconnect" /\ caller'[u] = Idle
DisconnectIsLast(w) ==
  \A i \in 1 .. Len(applied[w]) :
     /\ applied[w][i].seq = i
     /\ applied[w][i].cmd = DisconnectCmd =>
          /\ i = Len(applied[w])
          /\ worker[w].pc \in {"exit", "cleanup", "emit", "done"}
C15_DisconnectEndsSession ==
  /\ [][ \A u \in Callers :
           DisconnectReturns(u) =>
             sessions'[Key(caller[u].socket_id, caller[u].server_id)] = None ]_vars
  /\ \A w \in Sids :
       (removedBy[w] = "disconnect") ~> (worker[w].pc = "done" /\ DisconnectedCount(w) = 1)
  /\ [] (\A w \in Sids : DisconnectIsLast(w))

\* the worker of a disconnected session has returned after a Write and the
\* Disconnect, and a command enqueued after the Disconnect was dropped
C15_Witness ==
  \E w \in Sids :
    /\ removedBy[w] = "disconnect"
    /\ worker[w].pc = "done"
    /\ Len(applied[w]) = 2
    /\ applied[w][1].cmd.type = "Write"
    /\ applied[w][2].cmd = DisconnectCmd
    /\ sent[w] = 3

\* C16: the worker operates on the shell channel (write, resize, read)
\* only while no other thread holds the lock of the session's transport,
\* so never during the transport disconnect of a disconnect() call.
ShellChannelOp(w) ==
  /\ worker[w].pc = "drain"
  /\ \/ /\ applied'[w] # applied[w]
        /\ Last(applied'[w]).cmd.type \in {"Write", "Resize"}
     \/ worker'[w].cause \in {"eof", "error"}
C16_TransportOpsExclusive ==
  [][ \A w \in Sids :
        ShellChannelOp(w) =>
          ~ \E u \in Callers : sessLock[w] = u /\ InTransportCall(u) ]_vars

\* C17: the read timeout of a session is the Exec value exactly while its
\* worker runs an Exec, and the polling value in every other state of the
\* worker's loop, whether the Exec succeeded or failed.
C17_PollTimeoutRestored ==
  \A w \in Sids :
    /\ worker[w].pc \in {"drain", "exec_lock"} => transport[w].timeout = PollTimeout
    /\ worker[w].pc = "exec_run" =>
         /\ transport[w].timeout = ExecTimeout
         /\ worker[w].prev_timeout = PollTimeout

\* an Exec has failed and the worker is back in its loop with the polling
\* timeout
C17_Witness ==
  \E u \in ExecCallers :
    /\ caller[u].pc \in {"exec_wait", "exec_ret"}
    /\ "Err(e)" \in {caller[u].reply, caller[u].result}
    /\ worker[caller[u].sid].pc = "drain"
    /\ transport[caller[u].sid].timeout = PollTimeout

\* C18: the wait-for graph of the two kinds of locks has no cycle.  A
\* thread that holds a session lock is inside a transport call and waits
\* for nothing; a caller takes a session lock only under the registry
\* lock; a worker holds its session lock only while it runs an Exec, so
\* never when it asks for the registry lock; hence the holder of any lock
\* a thread waits for can go on.
CallerWaits(u) ==
  caller[u].pc = "disc_lock" /\ sessLock[caller[u].sid] # NoThread
WorkerWaitsSession(w) ==
  worker[w].pc \in {"exec_lock", "exit"} /\ sessLock[w] # NoThread
WaitsRegistry(s) ==
  regLock # NoThread /\ (worker[s].pc = "cleanup" \/ task[s].pc = "register")
SessionHolderRuns(s) ==
  /\ sessLock[s] = "worker" => worker[s].pc = "exec_run"
  /\ \A u \in Threads :
       sessLock[s] = u =>
         /\ regLock = u
         /\ caller[u].pc = "disc_transport"
         /\ caller[u].sid = s
RegistryHolderRuns ==
  \A u \in Threads :
    regLock = u =>
      /\ caller[u].pc \in {"disc_lock", "disc_transport"}
      /\ CallerWaits(u) =>
           /\ sessLock[caller[u].sid] = "worker"
           /\ worker[caller[u].sid].pc = "exec_run"
C18_NoLockCycle ==
  /\ regLock \in Threads \cup {NoThread}
  /\ \A s \in Sids : sessLock[s] \in Threads \cup {NoThread, "worker"}
  /\ \A s \in Sids : SessionHolderRuns(s)
  /\ RegistryHolderRuns

\* a connect task waits for the registry lock, whose holder waits for the
\* session lock of a worker that runs an Exec
C18_Witness ==
  \E u \in Callers, s \in Sids :
    /\ regLock = u
    /\ CallerWaits(u)
    /\ WaitsRegistry(s)
    /\ s # caller[u].sid

\* C19: a worker emits its disconnected status only while no later session
\* of the same key has emitted connected.  Sessions are numbered in the
\* order of their connect() calls.
LaterConnected(w) ==
  \E t \in Sids : t > w /\ Started(t) /\ KeyOf(t) = KeyOf(w) /\ Connected(t)
C19_NoStaleDisconnected ==
  [][ \A w \in Sids : Returns(w) => ~ LaterConnected(w) ]_vars

\* C20: a connect task that was in flight when a disconnect() of its key
\* or a disconnect_all() of its client returned does not insert its
\* session and start its worker, unless a later connect() was issued for
\* the client.
Registers(t) == task[t].pc = "register" /\ task'[t].pc = "done"
LaterConnect(t) ==
  \/ \E r \in Sids : r > t /\ Started(r) /\ task[r].socket_id = task[t].socket_id
  \/ \E u \in Callers : caller[u].op = "connect"
                        /\ caller[u].socket_id = task[t].socket_id
C20_TeardownIsFinal ==
  [][ \A t \in Sids :
        (Registers(t) /\ tornDown[t]) => LaterConnect(t) ]_vars

====
